---- MODULE Spec2Model ----
(***************************************************************************)
(* Model of the adaptation layer of embassy-matter:                        *)
(*   - EmbassyWifi::run (rs-matter-embassy/src/wireless.rs): provisioning, *)
(*     the lock on EmbassyNetContext::resources, the link-layer stack and  *)
(*     the race between the caller's task and the stack's runner;          *)
(*   - the Wifi driver providers (PreexistingWifi, EspWifiDriverProvider)  *)
(*     and the controller adapters (EspWifiController, Cyw43WifiController)*)
(*                                                                         *)
(* Spec    : NumAdapters EmbassyWifi adapters wrapped around one           *)
(*           EmbassyNetContext, each invoking run any number of times.     *)
(* FairSpec: Spec plus the fairness of the cooperative executor.           *)
(* CtlSpec : one provider and the controller it hands out, under any       *)
(*           sequence of provide / scan / connect / query calls.           *)
(***************************************************************************)
EXTENDS Integers, Sequences, FiniteSets, TLC

\* ---------------------------------------------------------------- bounds
NumAdapters == 2
NumSsids == 2
NumSampleBytes == 2
NumIpv4 == 2

\* ------------------------------------------------------------- constants
MAX_NETWORKS == 3
MAX_SOCKETS == 2
TIMEOUT_PERIOD_SECS == 5

\* Mutant of MIN_SOCKET_SET: no headroom for DHCP and DNS.
MIN_SOCKET_SET_NoHeadroom == MAX_SOCKETS

\* `pub const MIN_SOCKET_SET: usize = MAX_SOCKETS + 2;`
MIN_SOCKET_SET == MAX_SOCKETS + 2

Adapters == 1..NumAdapters
Ssids == 1..NumSsids
\* No value yet in a slot that later holds a Result<(), Error>.
NoResult == "none"

\* Option<T>: None and Some(x).
None == <<>>
Some(x) == <<x>>

\* rs-matter `Error` values: the one `to_err` produces, and one other code
\* standing for every error the caller's task or a callback may return.
ErrorCodes == {"NoNetworkInterface", "OtherError"}
Results == {"Ok"} \cup ErrorCodes

\* Native esp-wifi `WifiError` values.
WifiErrors == {"NotInitialized", "InternalError"}

\* The provider type `T` of each EmbassyWifi<'_, T>.
ProviderOf(a) ==
    IF a % 2 = 1 THEN "EspWifiDriverProvider" ELSE "PreexistingWifi"

VARIABLES
    \* ---- EmbassyWifi::run, one entry per adapter
    pc,        \* position of the adapter's run future
    locked,    \* state of EmbassyNetContext::resources (the IfMutex)
    stack,     \* whether the activation's embassy-net stack exists
    main,      \* the future `task.run(netif, udp, controller)`
    mainOut,   \* the value `main` is ready with
    runner,    \* the future `async { runner.run().await; Ok(()) }`
    ret,       \* the value the latest return of run gave its caller
    provides,  \* calls of provider.provide() in the current invocation
    starts,    \* starts of the caller's task in the current invocation
    tie,       \* whether both sides were ready when the race was resolved
    \* ---- one provider and its controller
    wifi,      \* the provider type and the controller type
    provided,  \* whether a (driver, controller) pair is borrowed
    identity,  \* field .1 of the controller: Option<WifiSsid>
    aborted,   \* whether provide() panicked
    lastConnect, \* the latest connect call on the controller
    call,      \* the latest call on the controller
    \* ---- the address functions of nal.rs
    mac,       \* a 6-byte hardware address
    ip,        \* Option: an IPv6 address, as its 16 octets
    ipFrom,    \* where ip comes from: create_link_local_ipv6 or the caller
    mcast,     \* Option: result of multicast_mac_for_link_local_ipv6(ip)
    configs,   \* the Config values create_net_config built, one per activation
    \* ---- EmbassyNetif over the embassy-net stack of one activation
    netUp,     \* whether the stack (and the EmbassyNetif on it) exists
    cfgV4,     \* Option: what stack.config_v4() gives, the address
    cfgV6,     \* Option: what stack.config_v6() gives, the 16 octets
    resources, \* MatterStackResources: the slots of the socket set
    buffersUsed, \* MatterUdpBuffers: how many buffers are allocated
    waiting,   \* whether a wait_conf_change call is suspended
    elapsed,   \* seconds since that call started
    poolHist,  \* whether the buffer pool has been exhausted / freed again
    netPanic,  \* whether adding a socket to a full socket set panicked
    netCall,   \* the latest call on the EmbassyNetif
    \* ---- EmbassyBle::run
    blePc,       \* position of the run future of the BLE adapter
    bleMain,     \* the future `task.run(&peripheral)`
    bleMainOut,  \* the value that future is ready with
    bleRet,      \* the value the latest return of the BLE run gave
    bleProvides, \* calls of provider.provide() in the current invocation
    bleStarts    \* starts of the caller's task in the current invocation

runVars == <<pc, locked, stack, main, mainOut, runner, ret, provides, starts,
            tie>>
ctlVars == <<wifi, provided, identity, aborted, lastConnect, call>>
nalVars == <<mac, ip, ipFrom, mcast, configs>>
netVars == <<netUp, cfgV4, cfgV6, resources, buffersUsed, waiting, elapsed,
            poolHist, netPanic, netCall>>
bleVars == <<blePc, bleMain, bleMainOut, bleRet, bleProvides, bleStarts>>

vars == <<pc, locked, stack, main, mainOut, runner, ret, provides, starts,
          tie,
          wifi, provided, identity, aborted, lastConnect, call,
          mac, ip, ipFrom, mcast, configs,
          netUp, cfgV4, cfgV6, resources, buffersUsed, waiting, elapsed,
          poolHist, netPanic, netCall,
          blePc, bleMain, bleMainOut, bleRet, bleProvides, bleStarts>>

\* What the actions of one component leave alone in the others.
notRun == <<ctlVars, nalVars, netVars, bleVars>>
notCtl == <<runVars, nalVars, netVars, bleVars>>
notNal == <<runVars, ctlVars, netVars, bleVars>>
notNet == <<runVars, ctlVars, nalVars, bleVars>>
notBle == <<runVars, ctlVars, nalVars, netVars>>

NoCall == [op |-> "none"]

\* Byte values the hardware addresses are built from: 0x50 and 0x52 differ
\* in the universal/local bit only.
SampleBytes == <<80, 82, 255, 0, 2, 127>>
Bytes == {SampleBytes[i] : i \in 1..NumSampleBytes}

\* The address of the unit test of nal.rs: 52:74:f2:b1:a8:7f.
TestMac == <<82, 116, 242, 177, 168, 127>>

Macs == [1..6 -> Bytes] \cup {TestMac}

WifiKinds ==
    { [provider |-> "EspWifiDriverProvider", controller |-> "EspWifiController"],
      [provider |-> "PreexistingWifi", controller |-> "Cyw43WifiController"],
      [provider |-> "PreexistingWifi", controller |-> "EspWifiController"] }

\* EmbassyNetContext::new and EmbassyWifi::wrap: nothing runs, the mutex
\* is free.
RunInit ==
    /\ pc = [a \in Adapters |-> "idle"]
    /\ locked = FALSE
    /\ stack = [a \in Adapters |-> FALSE]
    /\ main = [a \in Adapters |-> "none"]
    /\ mainOut = [a \in Adapters |-> NoResult]
    /\ runner = [a \in Adapters |-> "none"]
    /\ ret = [a \in Adapters |-> NoResult]
    /\ provides = [a \in Adapters |-> 0]
    /\ starts = [a \in Adapters |-> 0]
    /\ tie = [a \in Adapters |-> FALSE]

\* A controller as Cyw43WifiController::new / EspWifiController::new give
\* it (identity None), no pair handed out yet.
CtlFresh ==
    /\ provided = FALSE
    /\ identity = None
    /\ aborted = FALSE
    /\ lastConnect = NoCall
    /\ call = NoCall

\* The provider of any of the three kinds, just constructed.
CtlInit ==
    /\ wifi \in WifiKinds
    /\ CtlFresh

\* The provider and controller while another component is analysed.
CtlIdle ==
    /\ wifi = [provider |-> "EspWifiDriverProvider",
               controller |-> "EspWifiController"]
    /\ CtlFresh

\* No address computed yet, for any hardware address of Macs.
NalInit ==
    /\ mac \in Macs
    /\ ip = None
    /\ ipFrom = "none"
    /\ mcast = None
    /\ configs = <<>>

\* The address functions while another component is analysed.
NalIdle ==
    /\ mac = TestMac
    /\ ip = None
    /\ ipFrom = "none"
    /\ mcast = None
    /\ configs = <<>>

\* EmbassyNetContext::new: MatterUdpBuffers::new() and
\* MatterStackResources::new(), no stack built on them yet.
NetInit ==
    /\ netUp = FALSE
    /\ cfgV4 = None
    /\ cfgV6 = None
    /\ resources = [i \in 1..MIN_SOCKET_SET |-> "free"]
    /\ buffersUsed = 0
    /\ waiting = FALSE
    /\ elapsed = 0
    /\ poolHist = "fresh"
    /\ netPanic = FALSE
    /\ netCall = NoCall

\* EmbassyBle::wrap: the provider, rand and context are stored, run has
\* not been called.
BleInit ==
    /\ blePc = "idle"
    /\ bleMain = "none"
    /\ bleMainOut = NoResult
    /\ bleRet = NoResult
    /\ bleProvides = 0
    /\ bleStarts = 0

Init ==
    /\ RunInit
    /\ CtlIdle
    /\ NalIdle
    /\ NetInit
    /\ BleInit

\* ------------------------------------------------------------ providers

\* EspWifiDriverProvider::provide: new_with_mode(..).unwrap() panics when
\* the native call fails, else a fresh EspWifiController (identity None).
EspWifiDriverProvider_provide(native, id) ==
    IF native = "Ok"
    THEN [panic |-> FALSE, identity |-> None, fresh |-> TRUE]
    ELSE [panic |-> TRUE, identity |-> id, fresh |-> FALSE]

\* PreexistingWifi::provide: (&mut self.0, &mut self.1), the same objects.
PreexistingWifi_provide(id) ==
    [panic |-> FALSE, identity |-> id, fresh |-> FALSE]

provide(kind, native, id) ==
    IF kind = "EspWifiDriverProvider"
    THEN EspWifiDriverProvider_provide(native, id)
    ELSE PreexistingWifi_provide(id)

\* What the native esp_wifi::wifi::new_with_mode may answer.
NativeOutcomes == {"Ok"} \cup WifiErrors

\* ------------------------------------------------------ EmbassyWifi::run

\* A panic (unwrap in provide) stops the whole single-threaded program.
Alive == \A a \in Adapters : pc[a] # "panicked"

Holders == {a \in Adapters : pc[a] \in {"configuring", "racing"}}

\* The caller invokes run(task); run awaits self.provider.provide().
CallRun(a) ==
    /\ Alive
    /\ pc[a] = "idle"
    /\ pc' = [pc EXCEPT ![a] = "provide"]
    /\ provides' = [provides EXCEPT ![a] = 0]
    /\ starts' = [starts EXCEPT ![a] = 0]
    /\ UNCHANGED <<locked, stack, main, mainOut, runner, ret>>
    /\ tie' = [tie EXCEPT ![a] = FALSE]
    /\ UNCHANGED notRun

\* Mutant of Provide: run goes on to build the stack as soon as provide()
\* has answered, without requesting the lock of the resource pool.
Provide_SkipsLock(a) ==
    /\ Alive
    /\ pc[a] = "provide"
    /\ \E native \in NativeOutcomes :
         LET p == provide(ProviderOf(a), native, None) IN
         pc' = [pc EXCEPT ![a] =
                  IF p.panic THEN "panicked" ELSE "configuring"]
    /\ provides' = [provides EXCEPT ![a] = @ + 1]
    /\ UNCHANGED <<locked, stack, main, mainOut, runner, ret, starts>>
    /\ UNCHANGED tie
    /\ UNCHANGED notRun

\* `let (driver, controller) = self.provider.provide().await;`
Provide(a) ==
    /\ Alive
    /\ pc[a] = "provide"
    /\ \E native \in NativeOutcomes :
         LET p == provide(ProviderOf(a), native, None) IN
         pc' = [pc EXCEPT ![a] = IF p.panic THEN "panicked" ELSE "lock"]
    /\ provides' = [provides EXCEPT ![a] = @ + 1]
    /\ UNCHANGED <<locked, stack, main, mainOut, runner, ret, starts>>
    /\ UNCHANGED tie
    /\ UNCHANGED notRun

\* Mutant of Lock: the lock future completes without waiting for the holder.
Lock_NoWait(a) ==
    /\ Alive
    /\ pc[a] = "lock"
    /\ locked' = TRUE
    /\ pc' = [pc EXCEPT ![a] = "configuring"]
    /\ UNCHANGED <<stack, main, mainOut, runner, ret, provides, starts>>
    /\ UNCHANGED tie
    /\ UNCHANGED notRun

\* `let mut resources = self.context.resources.lock().await;`
\* the future is ready only once the mutex is free, and then takes it.
Lock(a) ==
    /\ Alive
    /\ pc[a] = "lock"
    /\ ~locked
    /\ locked' = TRUE
    /\ pc' = [pc EXCEPT ![a] = "configuring"]
    /\ UNCHANGED <<stack, main, mainOut, runner, ret, provides, starts>>
    /\ UNCHANGED tie
    /\ UNCHANGED notRun

\* seed, create_net_stack, EmbassyNetif::new, Udp::new, and the two pinned
\* futures `main` and `run`.
Configure(a) ==
    /\ Alive
    /\ pc[a] = "configuring"
    /\ stack' = [stack EXCEPT ![a] = TRUE]
    /\ main' = [main EXCEPT ![a] = "pending"]
    /\ mainOut' = [mainOut EXCEPT ![a] = NoResult]
    /\ runner' = [runner EXCEPT ![a] = "running"]
    /\ pc' = [pc EXCEPT ![a] = "racing"]
    /\ starts' = [starts EXCEPT ![a] = @ + 1]
    /\ UNCHANGED <<locked, ret, provides>>
    /\ UNCHANGED tie
    /\ UNCHANGED notRun

\* The caller's task gets to the point where its next poll is Ready(r).
TaskFinish(a) ==
    /\ Alive
    /\ pc[a] = "racing"
    /\ main[a] = "pending"
    /\ \E r \in Results :
         /\ main' = [main EXCEPT ![a] = "ready"]
         /\ mainOut' = [mainOut EXCEPT ![a] = r]
    /\ UNCHANGED <<pc, locked, stack, runner, ret, provides, starts>>
    /\ UNCHANGED tie
    /\ UNCHANGED notRun

\* runner.run() comes back, so the next poll of `run` is Ready(Ok(())).
RunnerExit(a) ==
    /\ Alive
    /\ pc[a] = "racing"
    /\ runner[a] = "running"
    /\ runner' = [runner EXCEPT ![a] = "ready"]
    /\ UNCHANGED <<pc, locked, stack, main, mainOut, ret, provides, starts>>
    /\ UNCHANGED tie
    /\ UNCHANGED notRun

\* Mutant of select: the second future is polled before the first.
select_SecondPolledFirst(m, mOut, r) ==
    IF r = "ready" THEN [side |-> "Second", value |-> "Ok"]
    ELSE IF m = "ready" THEN [side |-> "First", value |-> mOut]
    ELSE [side |-> "Pending", value |-> NoResult]

\* embassy_futures::select::select(a, b): polls a, then b.
select(m, mOut, r) ==
    IF m = "ready" THEN [side |-> "First", value |-> mOut]
    ELSE IF r = "ready" THEN [side |-> "Second", value |-> "Ok"]
    ELSE [side |-> "Pending", value |-> NoResult]

\* Mutant of coalesce: the first side's error is swallowed.
coalesce_DropsError(e) == "Ok"

\* Mutant of coalesce: the end of the second side is reported as an error.
coalesce_SecondIsError(e) ==
    IF e.side = "Second" THEN "NoNetworkInterface" ELSE e.value

\* Coalesce: Either<T, T> -> T.
coalesce(e) == e.value

\* Mutant of Resolve: the guard is leaked (mem::forget) instead of dropped.
Resolve_LeaksGuard(a) ==
    /\ Alive
    /\ pc[a] = "racing"
    /\ LET e == select(main[a], mainOut[a], runner[a]) IN
         /\ e.side # "Pending"
         /\ ret' = [ret EXCEPT ![a] = coalesce(e)]
         /\ main' = [main EXCEPT ![a] =
                        IF e.side = "First" THEN "done" ELSE "dropped"]
         /\ runner' = [runner EXCEPT ![a] =
                        IF e.side = "Second" THEN "done" ELSE "dropped"]
    /\ stack' = [stack EXCEPT ![a] = FALSE]
    /\ pc' = [pc EXCEPT ![a] = "idle"]
    /\ UNCHANGED <<locked, mainOut, provides, starts>>
    /\ tie' = [tie EXCEPT ![a] =
                 main[a] = "ready" /\ runner[a] = "ready"]
    /\ UNCHANGED notRun

\* Mutant of Resolve: an activation whose race ended in an error is retried
\* by run itself, from provide() on, instead of returning.
Resolve_RetriesOnError(a) ==
    /\ Alive
    /\ pc[a] = "racing"
    /\ LET e == select(main[a], mainOut[a], runner[a]) IN
         /\ e.side # "Pending"
         /\ ret' = IF coalesce(e) = "Ok"
                      THEN [ret EXCEPT ![a] = coalesce(e)] ELSE ret
         /\ pc' = [pc EXCEPT ![a] =
                      IF coalesce(e) = "Ok" THEN "idle" ELSE "provide"]
         /\ main' = [main EXCEPT ![a] =
                        IF e.side = "First" THEN "done" ELSE "dropped"]
         /\ runner' = [runner EXCEPT ![a] =
                        IF e.side = "Second" THEN "done" ELSE "dropped"]
    /\ stack' = [stack EXCEPT ![a] = FALSE]
    /\ locked' = FALSE
    /\ UNCHANGED <<mainOut, provides, starts>>
    /\ tie' = [tie EXCEPT ![a] =
                 main[a] = "ready" /\ runner[a] = "ready"]
    /\ UNCHANGED notRun

\* Mutant of Resolve: the background loop is detached (spawned) instead of
\* owned by run, so it goes on after run has returned.
Resolve_DetachedRunner(a) ==
    /\ Alive
    /\ pc[a] = "racing"
    /\ LET e == select(main[a], mainOut[a], runner[a]) IN
         /\ e.side # "Pending"
         /\ ret' = [ret EXCEPT ![a] = coalesce(e)]
         /\ main' = [main EXCEPT ![a] =
                        IF e.side = "First" THEN "done" ELSE "dropped"]
         /\ runner' = [runner EXCEPT ![a] =
                        IF e.side = "Second" THEN "done" ELSE "running"]
    /\ stack' = [stack EXCEPT ![a] = FALSE]
    /\ locked' = FALSE
    /\ pc' = [pc EXCEPT ![a] = "idle"]
    /\ UNCHANGED <<mainOut, provides, starts>>
    /\ tie' = [tie EXCEPT ![a] =
                 main[a] = "ready" /\ runner[a] = "ready"]
    /\ UNCHANGED notRun

\* Mutant of Resolve: the loser of the race is told of its cancellation
\* and polled once more, so that it ends with an error of its own.
Resolve_CancelsLoser(a) ==
    /\ Alive
    /\ pc[a] = "racing"
    /\ LET e == select(main[a], mainOut[a], runner[a]) IN
         /\ e.side # "Pending"
         /\ ret' = [ret EXCEPT ![a] = coalesce(e)]
         /\ main' = [main EXCEPT ![a] = "done"]
         /\ mainOut' = [mainOut EXCEPT ![a] =
                          IF e.side = "First" THEN @ ELSE "OtherError"]
         /\ runner' = [runner EXCEPT ![a] = "done"]
    /\ stack' = [stack EXCEPT ![a] = FALSE]
    /\ locked' = FALSE
    /\ pc' = [pc EXCEPT ![a] = "idle"]
    /\ UNCHANGED <<provides, starts>>
    /\ tie' = [tie EXCEPT ![a] =
                 main[a] = "ready" /\ runner[a] = "ready"]
    /\ UNCHANGED notRun

\* `select(&mut main, &mut run).coalesce().await`, the return of run, and
\* the drop of its locals: both futures, the stack and the mutex guard.
Resolve(a) ==
    /\ Alive
    /\ pc[a] = "racing"
    /\ LET e == select(main[a], mainOut[a], runner[a]) IN
         /\ e.side # "Pending"
         /\ ret' = [ret EXCEPT ![a] = coalesce(e)]
         /\ main' = [main EXCEPT ![a] =
                        IF e.side = "First" THEN "done" ELSE "dropped"]
         /\ runner' = [runner EXCEPT ![a] =
                        IF e.side = "Second" THEN "done" ELSE "dropped"]
    /\ stack' = [stack EXCEPT ![a] = FALSE]
    /\ locked' = FALSE
    /\ pc' = [pc EXCEPT ![a] = "idle"]
    /\ UNCHANGED <<mainOut, provides, starts>>
    /\ tie' = [tie EXCEPT ![a] =
                 main[a] = "ready" /\ runner[a] = "ready"]
    /\ UNCHANGED notRun

\* The points at which the future of run is suspended.
SuspensionPoints == {"provide", "lock", "racing"}

\* Mutant of CancelRun: the guard of the mutex outlives the dropped future.
CancelRun_LeaksGuard(a) ==
    /\ Alive
    /\ pc[a] \in SuspensionPoints
    /\ pc' = [pc EXCEPT ![a] = "idle"]
    /\ stack' = [stack EXCEPT ![a] = FALSE]
    /\ main' = [main EXCEPT ![a] =
                   IF @ \in {"pending", "ready"} THEN "dropped" ELSE @]
    /\ runner' = [runner EXCEPT ![a] =
                     IF @ \in {"running", "ready"} THEN "dropped" ELSE @]
    /\ UNCHANGED <<locked, mainOut, ret, provides, starts>>
    /\ UNCHANGED tie
    /\ UNCHANGED notRun

\* The caller drops the future of run while it is suspended: in
\* provide().await, in lock().await or in the select. The locals that
\* exist at that point are dropped: past the lock these are the guard, the
\* stack and the two futures. run returns nothing.
CancelRun(a) ==
    /\ Alive
    /\ pc[a] \in SuspensionPoints
    /\ pc' = [pc EXCEPT ![a] = "idle"]
    /\ locked' = IF pc[a] = "racing" THEN FALSE ELSE locked
    /\ stack' = [stack EXCEPT ![a] = FALSE]
    /\ main' = [main EXCEPT ![a] =
                   IF @ \in {"pending", "ready"} THEN "dropped" ELSE @]
    /\ runner' = [runner EXCEPT ![a] =
                     IF @ \in {"running", "ready"} THEN "dropped" ELSE @]
    /\ UNCHANGED <<mainOut, ret, provides, starts>>
    /\ UNCHANGED tie
    /\ UNCHANGED notRun

Next ==
    \E a \in Adapters :
        \/ CallRun(a)
        \/ Provide(a)
        \/ Lock(a)
        \/ Configure(a)
        \/ TaskFinish(a)
        \/ RunnerExit(a)
        \/ Resolve(a)

Spec == Init /\ [][Next]_vars

\* The same adapters under callers that may also drop the future of run.
CancelNext ==
    \/ Next
    \/ \E a \in Adapters : CancelRun(a)

CancelSpec == Init /\ [][CancelNext]_vars

\* The executor polls every future that is ready: each step of run that is
\* enabled and stays enabled is eventually taken. Nothing makes the
\* caller's task finish or the runner exit.
FairSpec ==
    /\ Spec
    /\ \A a \in Adapters :
          /\ WF_vars(Provide(a))
          /\ WF_vars(Lock(a))
          /\ WF_vars(Configure(a))
          /\ WF_vars(Resolve(a))

\* ======================================================================
\* Properties of EmbassyWifi::run
\* ======================================================================

\* C1: at every instant at most one run invocation is past
\* `resources.lock().await` and not yet returned, and an invocation waiting
\* at the lock gets past it only in a step taken while nobody holds it.
C1_MutualExclusion ==
    /\ [](Cardinality(Holders) <= 1)
    /\ [][\A a \in Adapters :
            (pc[a] = "lock" /\ pc'[a] = "configuring")
                => (Holders = {} /\ ~locked)]_vars

\* C1 witness: one invocation holds the lock while another is suspended at it.
C1_Witness ==
    \E a, b \in Adapters :
        /\ a # b
        /\ pc[a] = "racing"
        /\ pc[b] = "lock"
        /\ locked

\* C2: when the caller's task completed and so won the race, run returned
\* exactly the task's result, Ok(()) or the same error value.
C2_ReturnsTaskResult ==
    \A a \in Adapters :
        (pc[a] = "idle" /\ main[a] = "done") => ret[a] = mainOut[a]

\* C2 witness: a run has returned the error its task failed with, the
\* background loop having been still pending.
C2_Witness ==
    \E a \in Adapters :
        /\ pc[a] = "idle"
        /\ main[a] = "done"
        /\ runner[a] = "dropped"
        /\ mainOut[a] = "OtherError"
        /\ ret[a] = "OtherError"

\* C3: when the background loop ended while the caller's task was still
\* pending, run returned Ok(()) and the task was abandoned, not completed.
C3_RunnerExitIsOk ==
    \A a \in Adapters :
        (pc[a] = "idle" /\ runner[a] = "done")
            => (ret[a] = "Ok" /\ main[a] = "dropped" /\ mainOut[a] = NoResult)

\* C3 witness: a run has returned because its background loop ended.
C3_Witness ==
    \E a \in Adapters :
        /\ pc[a] = "idle"
        /\ runner[a] = "done"
        /\ main[a] = "dropped"
        /\ ret[a] = "Ok"

\* C4: in every state in which no activation is between the acquisition of
\* the lock and its return, the lock is not held.
C4_LockReleasedOnReturn ==
    (Holders = {}) => ~locked

\* C4 witness: activations have returned by task success, by task failure
\* and by the end of the background loop, and nobody holds the lock.
C4_Witness ==
    /\ Holders = {}
    /\ ~locked
    /\ \E a, b \in Adapters :
          /\ a # b
          /\ pc[a] = "idle" /\ main[a] = "done" /\ ret[a] \in ErrorCodes
          /\ pc[b] = "idle" /\ runner[b] = "done"

\* C5: run is restartable. On an adapter that is the only one using the
\* context, every run call made after an earlier activation has returned
\* obtains a pair from the provider, acquires the lock, builds a new stack
\* and reaches the race, under the fairness of the executor, every time.
C5_Restartable ==
    \A a \in Adapters :
        [](\A b \in Adapters \ {a} : pc[b] = "idle")
            => ((pc[a] = "provide" /\ ret[a] # NoResult)
                    ~> (pc[a] = "racing" /\ stack[a] /\ locked))

\* C6: a failure to provision the driver/controller pair comes back to the
\* caller of run as an Err: no activation is ever left aborted by it.
C6_ProvisionFailureReturnsErr ==
    \A a \in Adapters : pc[a] # "panicked"

\* ======================================================================
\* The controller adapters (wifi::esp and wifi::rp)
\* ======================================================================

\* Mutant of to_err: the native error is mapped to another error code.
to_err_OtherCode(e) == "OtherError"

\* esp::to_err: every WifiError becomes ErrorCode::NoNetworkInterface.
to_err(e) == "NoNetworkInterface"

\* The native calls connect makes, in order; stop_async only when started.
ConnectSteps(isStarted) ==
    <<"is_started">>
        \o (IF isStarted THEN <<"stop_async">> ELSE <<>>)
        \o <<"set_configuration", "start_async", "connect_async",
             "is_connected">>

\* The native calls scan makes, in order; start_async only when not started.
ScanSteps(isStarted) ==
    <<"is_started">>
        \o (IF isStarted THEN <<>> ELSE <<"start_async">>)
        \o <<"scan_with_config_async">>

Range(q) == {q[i] : i \in 1..Len(q)}

\* Mutant of EspWifiController_connect: the identity is cleared only once
\* the native calls have gone through.
EspWifiController_connect_ClearsLate(id, ssid, isStarted, failAt, err, isConnected) ==
    IF failAt \in Range(ConnectSteps(isStarted))
    THEN [res |-> to_err(err), identity |-> id]
    ELSE [res |-> "Ok",
          identity |-> IF isConnected THEN Some(ssid) ELSE None]

\* EspWifiController::connect: `self.1 = None`, the native calls each with
\* `.map_err(to_err)?`, then `self.1 = is_connected()?.then_some(ssid)`.
EspWifiController_connect(id, ssid, isStarted, failAt, err, isConnected) ==
    LET cleared == None IN
    IF failAt \in Range(ConnectSteps(isStarted))
    THEN [res |-> to_err(err), identity |-> cleared]
    ELSE [res |-> "Ok",
          identity |-> IF isConnected THEN Some(ssid) ELSE None]

\* Cyw43WifiController::connect: `self.1 = None; Ok(())`.
Cyw43WifiController_connect(id, ssid) ==
    [res |-> "Ok", identity |-> None]

\* The calls `callback(Some(&ap))` for every ap, then `callback(None)`.
CallbackCalls(aps) ==
    [i \in 1..(Len(aps) + 1) |->
        IF i <= Len(aps) THEN Some(aps[i]) ELSE None]

\* Mutant of EspWifiController_scan: the sentinel is delivered on the
\* failure path too.
EspWifiController_scan_SentinelOnFailure(isStarted, failAt, err, aps, cbErrAt, cbErr) ==
    IF failAt \in Range(ScanSteps(isStarted))
    THEN [res |-> to_err(err), calls |-> <<None>>, failed |-> TRUE]
    ELSE IF cbErrAt \in 1..(Len(aps) + 1)
    THEN [res |-> cbErr, calls |-> SubSeq(CallbackCalls(aps), 1, cbErrAt),
          failed |-> FALSE]
    ELSE [res |-> "Ok", calls |-> CallbackCalls(aps), failed |-> FALSE]

\* Mutant of EspWifiController_scan: the error of the callback is kept
\* and returned after the remaining results and the sentinel went out.
EspWifiController_scan_ContinuesAfterCallbackError(isStarted, failAt, err, aps, cbErrAt, cbErr) ==
    IF failAt \in Range(ScanSteps(isStarted))
    THEN [res |-> to_err(err), calls |-> <<>>, failed |-> TRUE]
    ELSE IF cbErrAt \in 1..(Len(aps) + 1)
    THEN [res |-> cbErr, calls |-> CallbackCalls(aps), failed |-> FALSE]
    ELSE [res |-> "Ok", calls |-> CallbackCalls(aps), failed |-> FALSE]

\* EspWifiController::scan: is_started / start_async / scan_with_config_async
\* each with `.map_err(to_err)?`, then `callback(Some(..))?` per result and
\* `callback(None)?`. cbErrAt is the call at which the callback answers
\* Err(cbErr), 0 when it never does.
EspWifiController_scan(isStarted, failAt, err, aps, cbErrAt, cbErr) ==
    IF failAt \in Range(ScanSteps(isStarted))
    THEN [res |-> to_err(err), calls |-> <<>>, failed |-> TRUE]
    ELSE IF cbErrAt \in 1..(Len(aps) + 1)
    THEN [res |-> cbErr, calls |-> SubSeq(CallbackCalls(aps), 1, cbErrAt),
          failed |-> FALSE]
    ELSE [res |-> "Ok", calls |-> CallbackCalls(aps), failed |-> FALSE]

\* Cyw43WifiController::scan: `Ok(())`, the callback is never invoked.
Cyw43WifiController_scan ==
    [res |-> "Ok", calls |-> <<>>, failed |-> FALSE]

\* connected_network: `Ok(self.1.clone())`, both controllers.
connected_network(id) == [res |-> "Ok", value |-> id]

\* Mutant of stats: missing statistics are reported as an error.
stats_NotAvailableIsError == [res |-> "NoNetworkInterface", value |-> None]

\* stats: `Ok(None)`, both controllers.
stats == [res |-> "Ok", value |-> None]

\* What scan_with_config_async::<MAX_NETWORKS> may find.
ScanResults(network_id) ==
    LET among == IF network_id = None THEN Ssids ELSE Range(network_id) IN
    UNION {[1..n -> among] : n \in 0..MAX_NETWORKS}

\* provide() on the provider; the previous pair has gone out of scope.
CtlProvide ==
    /\ ~aborted
    /\ ~provided
    /\ \E native \in NativeOutcomes :
         LET p == provide(wifi.provider, native, identity) IN
         /\ aborted' = p.panic
         /\ provided' = ~p.panic
         /\ identity' = p.identity
         /\ lastConnect' = IF p.fresh THEN NoCall ELSE lastConnect
         /\ call' = IF p.fresh THEN NoCall ELSE call
    /\ UNCHANGED wifi
    /\ UNCHANGED notCtl

\* The (driver, controller) pair goes out of scope.
CtlRelease ==
    /\ ~aborted
    /\ provided
    /\ provided' = FALSE
    /\ UNCHANGED <<wifi, identity, aborted, lastConnect, call>>
    /\ UNCHANGED notCtl

\* What the native driver may do during one call: the native call that
\* fails ("none": no call fails) and the WifiError it fails with.
NativeFailures(steps) ==
    {[failAt |-> "none", err |-> "InternalError"]}
        \cup {[failAt |-> st, err |-> e] : st \in Range(steps), e \in WifiErrors}

\* What the callback of a scan may do: answer Err(cbErr) at its call number
\* cbErrAt, or (cbErrAt = 0) answer Ok(()) every time.
CallbackBehaviours(n) ==
    {[cbErrAt |-> 0, cbErr |-> "OtherError"]}
        \cup {[cbErrAt |-> i, cbErr |-> e] : i \in 1..n, e \in ErrorCodes}

\* Controller::connect(creds)
Connect ==
    /\ ~aborted
    /\ provided
    /\ \E ssid \in Ssids, isStarted \in BOOLEAN :
       \E nf \in NativeFailures(ConnectSteps(isStarted)) :
       \E isConnected \in IF nf.failAt = "none" THEN BOOLEAN ELSE {FALSE} :
         LET c == IF wifi.controller = "EspWifiController"
                  THEN EspWifiController_connect(identity, ssid, isStarted,
                                                 nf.failAt, nf.err, isConnected)
                  ELSE Cyw43WifiController_connect(identity, ssid) IN
         /\ identity' = c.identity
         /\ lastConnect' = [op |-> "connect", ssid |-> ssid, res |-> c.res]
         /\ call' = [op |-> "connect", ssid |-> ssid, res |-> c.res,
                     prior |-> identity, failAt |-> nf.failAt]
    /\ UNCHANGED <<wifi, provided, aborted>>
    /\ UNCHANGED notCtl

\* Controller::scan(network_id, callback)
Scan ==
    /\ ~aborted
    /\ provided
    /\ \E network_id \in {None} \cup {Some(x) : x \in Ssids},
          isStarted \in BOOLEAN :
       \E nf \in NativeFailures(ScanSteps(isStarted)) :
       \E aps \in IF nf.failAt = "none" THEN ScanResults(network_id)
                                        ELSE {<<>>} :
       \E cb \in IF nf.failAt = "none" THEN CallbackBehaviours(Len(aps) + 1)
                                       ELSE CallbackBehaviours(0) :
         LET c == IF wifi.controller = "EspWifiController"
                  THEN EspWifiController_scan(isStarted, nf.failAt, nf.err,
                                              aps, cb.cbErrAt, cb.cbErr)
                  ELSE Cyw43WifiController_scan
             found == IF wifi.controller = "EspWifiController" /\ ~c.failed
                      THEN aps ELSE <<>>
             cbFailed == c.res # "Ok" /\ ~c.failed IN
         call' = [op |-> "scan", res |-> c.res, calls |-> c.calls,
                  failed |-> c.failed, aps |-> found, cbFailed |-> cbFailed,
                  cbErrAt |-> cb.cbErrAt, cbErr |-> cb.cbErr]
    /\ UNCHANGED <<wifi, provided, identity, aborted, lastConnect>>
    /\ UNCHANGED notCtl

\* Controller::connected_network()
ConnectedNetwork ==
    /\ ~aborted
    /\ provided
    /\ LET c == connected_network(identity) IN
         call' = [op |-> "connected_network", res |-> c.res,
                  value |-> c.value]
    /\ UNCHANGED <<wifi, provided, identity, aborted, lastConnect>>
    /\ UNCHANGED notCtl

\* Controller::stats()
Stats ==
    /\ ~aborted
    /\ provided
    /\ call' = [op |-> "stats", res |-> stats.res, value |-> stats.value]
    /\ UNCHANGED <<wifi, provided, identity, aborted, lastConnect>>
    /\ UNCHANGED notCtl

CtlNext ==
    \/ CtlProvide
    \/ CtlRelease
    \/ Connect
    \/ Scan
    \/ ConnectedNetwork
    \/ Stats

CtlSpecInit ==
    /\ RunInit
    /\ CtlInit
    /\ NalIdle
    /\ NetInit
    /\ BleInit

CtlSpec == CtlSpecInit /\ [][CtlNext]_vars

\* ======================================================================
\* Properties of the controller adapters
\* ======================================================================

\* C7: after a connect call that failed, at whichever native step,
\* connected_network() gives none, whatever identity was recorded before.
C7_FailedConnectClearsIdentity ==
    (lastConnect.op = "connect" /\ lastConnect.res # "Ok")
        => connected_network(identity).value = None

\* C7 witness: a connect that failed at its first native call on a
\* controller that had an identity recorded, which is now gone.
C7_Witness ==
    /\ call.op = "connect"
    /\ call.prior # None
    /\ call.failAt = "is_started"
    /\ call.res \in ErrorCodes
    /\ identity = None

\* C8: after a connect(creds) that returned Ok(()), connected_network()
\* gives the SSID of creds until the next connect; it gives none when the
\* latest connect failed.
C8_ConnectRecordsIdentity ==
    lastConnect.op = "connect"
        => connected_network(identity).value =
             (IF lastConnect.res = "Ok" THEN Some(lastConnect.ssid) ELSE None)

\* C9: a scan whose native calls went through, and whose callback never
\* answered with an error, has invoked the callback once with Some(r) for
\* each discovered network r, in order, then exactly once with None, and
\* has returned Ok(()).
C9_ScanDeliversResultsThenSentinel ==
    (call.op = "scan" /\ ~call.failed /\ ~call.cbFailed)
        => (call.res = "Ok" /\ call.calls = CallbackCalls(call.aps))

\* C10: a scan in which a native call failed has returned
\* ErrorCode::NoNetworkInterface and has not invoked the callback at all.
C10_FailedScanShortCircuits ==
    (call.op = "scan" /\ call.failed)
        => (call.res = "NoNetworkInterface" /\ call.calls = <<>>)

\* C10 witness: a scan that failed in a native call.
C10_Witness ==
    /\ call.op = "scan"
    /\ call.failed
    /\ call.res = "NoNetworkInterface"
    /\ call.calls = <<>>

\* C11: whatever scan and connect calls came before, failed ones included,
\* stats() has answered Ok(None) and connected_network() has answered Ok:
\* neither query ever returns an error.
C11_QueriesNeverFail ==
    /\ call.op = "stats" => (call.res = "Ok" /\ call.value = None)
    /\ call.op = "connected_network" => call.res = "Ok"

\* C11 witness: stats() answered on a controller whose latest connect failed.
C11_Witness ==
    /\ call.op = "stats"
    /\ call.res = "Ok"
    /\ call.value = None
    /\ lastConnect.op = "connect"
    /\ lastConnect.res \in ErrorCodes

\* ======================================================================
\* The address functions of nal.rs
\* ======================================================================

\* `^` on u8.
RECURSIVE BitXor(_, _, _)
BitXor(x, y, bits) ==
    IF bits = 0 THEN 0
    ELSE (((x % 2) + (y % 2)) % 2) + (2 * BitXor(x \div 2, y \div 2, bits - 1))

\* Mutant of u16_from_be_bytes: the two bytes are taken little-endian.
u16_from_le_bytes(b) == b[2] * 256 + b[1]

\* u16::from_be_bytes
u16_from_be_bytes(b) == b[1] * 256 + b[2]

\* Ipv6Addr::new(a, b, c, d, e, f, g, h): the eight segments, big-endian,
\* as the 16 octets of the address.
Ipv6Addr_new(segments) ==
    [i \in 1..16 |->
        IF i % 2 = 1 THEN segments[(i + 1) \div 2] \div 256
                     ELSE segments[i \div 2] % 256]

\* Mutant of create_link_local_ipv6: the universal/local bit is set, not
\* flipped.
create_link_local_ipv6_SetsBit(m) ==
    Ipv6Addr_new(<<65152, 0, 0, 0,
                   u16_from_be_bytes(<<(m[1] - ((m[1] \div 2) % 2) * 2) + 2, m[2]>>),
                   u16_from_be_bytes(<<m[3], 255>>),
                   u16_from_be_bytes(<<254, m[4]>>),
                   u16_from_be_bytes(<<m[5], m[6]>>)>>)

\* create_link_local_ipv6(mac); mac[0] of the source is m[1] here.
create_link_local_ipv6(m) ==
    Ipv6Addr_new(<<65152, 0, 0, 0,
                   u16_from_be_bytes(<<BitXor(m[1], 2, 8), m[2]>>),
                   u16_from_be_bytes(<<m[3], 255>>),
                   u16_from_be_bytes(<<254, m[4]>>),
                   u16_from_be_bytes(<<m[5], m[6]>>)>>)

\* Mutant of multicast_mac_for_link_local_ipv6: the copied range is one
\* octet too early.
multicast_mac_OffByOne(octets) ==
    <<51, 51, 255>> \o SubSeq(octets, 13, 15)

\* multicast_mac_for_link_local_ipv6(ip): [0x33, 0x33, 0xff, 0, 0, 0] with
\* `mac[3..].copy_from_slice(&ip.octets()[13..])`.
multicast_mac_for_link_local_ipv6(octets) ==
    <<51, 51, 255>> \o SubSeq(octets, 14, 16)

\* Link-local addresses a caller may hand to
\* multicast_mac_for_link_local_ipv6 without deriving them from a MAC.
LinkLocalIps ==
    {<<254, 128, 0, 0, 0, 0, 0, 0, 0, 0, 0, 0, w, x, y, z>> :
        w \in Bytes, x \in Bytes, y \in Bytes, z \in Bytes}

\* create_link_local_ipv6(&mac)
CreateLinkLocal ==
    /\ ip' = Some(create_link_local_ipv6(mac))
    /\ ipFrom' = "mac"
    /\ mcast' = None
    /\ UNCHANGED <<mac, configs>>
    /\ UNCHANGED notNal

\* The caller has a link-local address of its own.
PickIp ==
    /\ \E a \in LinkLocalIps : ip' = Some(a)
    /\ ipFrom' = "caller"
    /\ mcast' = None
    /\ UNCHANGED <<mac, configs>>
    /\ UNCHANGED notNal

\* multicast_mac_for_link_local_ipv6(&ip)
MulticastMac ==
    /\ ip # None
    /\ mcast' = Some(multicast_mac_for_link_local_ipv6(ip[1]))
    /\ UNCHANGED <<mac, ip, ipFrom, configs>>
    /\ UNCHANGED notNal

NalNext ==
    \/ CreateLinkLocal
    \/ PickIp
    \/ MulticastMac

NalSpecInit ==
    /\ RunInit
    /\ CtlIdle
    /\ NalInit
    /\ NetInit
    /\ BleInit

NalSpec == NalSpecInit /\ [][NalNext]_vars

\* The byte b with its bit of value 2 (the universal/local bit) inverted.
FlipUniversalLocal(b) == IF (b \div 2) % 2 = 0 THEN b + 2 ELSE b - 2

\* C15: for every hardware address m, create_link_local_ipv6(m) is the 16
\* octets fe 80 00 00 00 00 00 00, m[0] XOR 0x02, m[1], m[2], ff, fe, m[3],
\* m[4], m[5].
C15_LinkLocalOctets ==
    ipFrom = "mac"
        => ip = Some(<<254, 128, 0, 0, 0, 0, 0, 0,
                       FlipUniversalLocal(mac[1]), mac[2], mac[3], 255,
                       254, mac[4], mac[5], mac[6]>>)

\* C15 witness: 52:74:f2:b1:a8:7f has given fe80::5074:f2ff:feb1:a87f.
C15_Witness ==
    /\ ipFrom = "mac"
    /\ mac = <<82, 116, 242, 177, 168, 127>>
    /\ ip = Some(<<254, 128, 0, 0, 0, 0, 0, 0,
                   80, 116, 242, 255, 254, 177, 168, 127>>)

\* C16: create_link_local_ipv6 is injective: no other hardware address
\* gives the address derived from mac, and mac is recovered from the
\* interface identifier.
C16_LinkLocalInjective ==
    ipFrom = "mac"
        => /\ \A m2 \in Macs :
                m2 # mac => create_link_local_ipv6(m2) # ip[1]
           /\ <<FlipUniversalLocal(ip[1][9]), ip[1][10], ip[1][11],
                ip[1][14], ip[1][15], ip[1][16]>> = mac

\* C16 witness: an address derived from a hardware address that has a
\* neighbour differing in the universal/local bit only.
C16_Witness ==
    /\ ipFrom = "mac"
    /\ mac[1] = 80
    /\ \E m2 \in Macs : m2 # mac /\ m2 = [mac EXCEPT ![1] = 82]

\* C17: multicast_mac_for_link_local_ipv6(ip) is 33:33:ff followed by
\* ip[13], ip[14], ip[15]; on an address derived from the hardware address
\* m it is 33:33:ff:m[3]:m[4]:m[5].
C17_MulticastMac ==
    mcast # None
        => /\ mcast = Some(<<51, 51, 255, ip[1][14], ip[1][15], ip[1][16]>>)
           /\ ipFrom = "mac"
                => mcast = Some(<<51, 51, 255, mac[4], mac[5], mac[6]>>)

\* C17 witness: the multicast MAC of an address derived from a hardware
\* address has been computed.
C17_Witness ==
    /\ mcast # None
    /\ ipFrom = "mac"
    /\ mcast = Some(<<51, 51, 255, mac[4], mac[5], mac[6]>>)

\* ======================================================================
\* EmbassyNetif (netif.rs) on the stack create_net_stack builds (nal.rs)
\* ======================================================================

Ipv4s == 1..NumIpv4

\* The first index of q that holds v, 0 when none does.
FirstIndex(q, v) ==
    IF \E i \in DOMAIN q : q[i] = v
    THEN CHOOSE i \in DOMAIN q : q[i] = v /\ \A j \in DOMAIN q : q[j] = v => i <= j
    ELSE 0

\* create_net_stack(driver, seed, resources), as EmbassyWifi::run calls it
\* once it holds the lock: create_net_config gives DHCPv4 and a static
\* link-local IPv6 address; embassy_net::new re-initialises the socket set
\* and takes the sockets of DHCP and DNS from it.
CreateNetStack ==
    /\ ~netPanic
    /\ ~netUp
    /\ netUp' = TRUE
    /\ cfgV4' = None
    /\ cfgV6' = Some(create_link_local_ipv6(mac))
    /\ resources' = [i \in DOMAIN resources |->
                        IF i = 1 THEN "dhcp" ELSE IF i = 2 THEN "dns" ELSE "free"]
    /\ UNCHANGED <<buffersUsed, waiting, elapsed, poolHist, netPanic, netCall>>
    /\ UNCHANGED notNet

\* The activation ends: the task with its sockets and netif, the runner
\* and the stack are dropped.
DropNetStack ==
    /\ ~netPanic
    /\ netUp
    /\ netUp' = FALSE
    /\ cfgV4' = None
    /\ cfgV6' = None
    /\ resources' = [i \in DOMAIN resources |-> "free"]
    /\ buffersUsed' = 0
    /\ waiting' = FALSE
    /\ elapsed' = 0
    /\ UNCHANGED <<poolHist, netPanic, netCall>>
    /\ UNCHANGED notNet

\* The runner gets or loses the DHCPv4 lease.
ConfigV4Change ==
    /\ ~netPanic
    /\ netUp
    /\ \E c \in {None} \cup {Some(x) : x \in Ipv4s} :
         /\ c # cfgV4
         /\ cfgV4' = c
    /\ UNCHANGED <<netUp, cfgV6, resources, buffersUsed, waiting, elapsed,
                   poolHist, netPanic, netCall>>
    /\ UNCHANGED notNet

\* The link goes down or up: the static IPv6 configuration goes or comes.
ConfigV6Change ==
    /\ ~netPanic
    /\ netUp
    /\ cfgV6' = IF cfgV6 = None THEN Some(create_link_local_ipv6(mac)) ELSE None
    /\ UNCHANGED <<netUp, cfgV4, resources, buffersUsed, waiting, elapsed,
                   poolHist, netPanic, netCall>>
    /\ UNCHANGED notNet

\* Mutant of EmbassyNetif_get_conf: the IPv6 configuration is not required.
EmbassyNetif_get_conf_V4Only(v4, v6) ==
    IF v4 = None THEN [ok |-> FALSE]
    ELSE [ok |-> TRUE,
          conf |-> [ipv4 |-> v4[1],
                    ipv6 |-> IF v6 = None THEN <<>> ELSE v6[1],
                    interface |-> 0, mac |-> <<0, 0, 0, 0, 0, 0>>]]

\* EmbassyNetif::get_conf(&self) -> Result<NetifConf, ()>
EmbassyNetif_get_conf(v4, v6) ==
    IF v4 = None THEN [ok |-> FALSE]
    ELSE IF v6 = None THEN [ok |-> FALSE]
    ELSE [ok |-> TRUE,
          conf |-> [ipv4 |-> v4[1], ipv6 |-> v6[1],
                    interface |-> 0, mac |-> <<0, 0, 0, 0, 0, 0>>]]

\* <EmbassyNetif as Netif>::get_conf: `Ok(EmbassyNetif::get_conf(self).ok())`
Netif_get_conf(v4, v6) ==
    LET r == EmbassyNetif_get_conf(v4, v6) IN
    [res |-> "Ok", value |-> IF r.ok THEN Some(r.conf) ELSE None]

\* Netif::get_conf()
GetConf ==
    /\ ~netPanic
    /\ netUp
    /\ LET r == Netif_get_conf(cfgV4, cfgV6) IN
         netCall' = [op |-> "get_conf", res |-> r.res, value |-> r.value,
                     v4 |-> cfgV4, v6 |-> cfgV6]
    /\ UNCHANGED <<netUp, cfgV4, cfgV6, resources, buffersUsed, waiting,
                   elapsed, poolHist, netPanic>>
    /\ UNCHANGED notNet

\* stack.is_config_up(): some configuration, IPv4 or IPv6, is up.
is_config_up == cfgV4 # None \/ cfgV6 # None

\* Mutant of WaitReady: the wait is for the configuration only, no timer.
WaitReady_NoTimer == is_config_up

\* `select(wait_up, timer).await` is ready once stack.wait_config_up() or
\* Timer::after(TIMEOUT_PERIOD_SECS) is.
WaitReady == is_config_up \/ elapsed >= TIMEOUT_PERIOD_SECS

\* Netif::wait_conf_change() is called and suspends.
WaitConfChange ==
    /\ ~netPanic
    /\ netUp
    /\ ~waiting
    /\ waiting' = TRUE
    /\ elapsed' = 0
    /\ UNCHANGED <<netUp, cfgV4, cfgV6, resources, buffersUsed, poolHist,
                   netPanic, netCall>>
    /\ UNCHANGED notNet

\* A second passes. The executor polls a future that is ready before time
\* goes on, so no second passes while the wait is ready to return.
Tick ==
    /\ ~netPanic
    /\ netUp
    /\ waiting
    /\ ~WaitReady
    /\ elapsed <= TIMEOUT_PERIOD_SECS
    /\ elapsed' = elapsed + 1
    /\ UNCHANGED <<netUp, cfgV4, cfgV6, resources, buffersUsed, waiting,
                   poolHist, netPanic, netCall>>
    /\ UNCHANGED notNet

\* wait_conf_change returns: `Ok(())` from EmbassyNetif::wait_conf_change,
\* so `.map_err(to_net_error)?` passes it on and the trait method gives
\* `Ok(())`.
WaitReturn ==
    /\ ~netPanic
    /\ netUp
    /\ waiting
    /\ WaitReady
    /\ waiting' = FALSE
    /\ netCall' = [op |-> "wait_conf_change", res |-> "Ok",
                   elapsed |-> elapsed, up |-> is_config_up]
    /\ UNCHANGED <<netUp, cfgV4, cfgV6, resources, buffersUsed, elapsed,
                   poolHist, netPanic>>
    /\ UNCHANGED notNet

\* Mutant of Udp_bind: the buffer pool is not consulted.
Udp_bind_NoPoolCheck(used, slots) ==
    IF FirstIndex(slots, "free") = 0
    THEN [res |-> "panic", used |-> used, slots |-> slots]
    ELSE [res |-> "Ok", used |-> used + 1,
          slots |-> [slots EXCEPT ![FirstIndex(slots, "free")] = "udp"]]

\* UdpBind::bind: `self.udp.bind(local).await`. The socket takes a buffer
\* of the pool (`UdpError::NoBuffers` when none is free) and a slot of the
\* socket set (which panics when it is full).
Udp_bind(used, slots) ==
    IF used >= MAX_SOCKETS
    THEN [res |-> "NoBuffers", used |-> used, slots |-> slots]
    ELSE IF FirstIndex(slots, "free") = 0
    THEN [res |-> "panic", used |-> used, slots |-> slots]
    ELSE [res |-> "Ok", used |-> used + 1,
          slots |-> [slots EXCEPT ![FirstIndex(slots, "free")] = "udp"]]

\* UdpBind::bind(local)
Bind ==
    /\ ~netPanic
    /\ netUp
    /\ LET b == Udp_bind(buffersUsed, resources) IN
         /\ buffersUsed' = b.used
         /\ resources' = b.slots
         /\ netPanic' = (b.res = "panic")
         /\ poolHist' = IF b.res = "NoBuffers" THEN "exhausted"
                        ELSE IF poolHist = "released" THEN "rebound"
                        ELSE poolHist
         /\ netCall' = [op |-> "bind", res |-> b.res, before |-> buffersUsed,
                        afterRelease |-> poolHist = "released"]
    /\ UNCHANGED <<netUp, cfgV4, cfgV6, waiting, elapsed>>
    /\ UNCHANGED notNet

\* A bound socket is dropped: its slot and its buffer are free again.
ReleaseSocket ==
    /\ ~netPanic
    /\ netUp
    /\ \E i \in DOMAIN resources :
         /\ resources[i] = "udp"
         /\ resources' = [resources EXCEPT ![i] = "free"]
    /\ buffersUsed' = buffersUsed - 1
    /\ poolHist' = IF poolHist = "exhausted" THEN "released" ELSE poolHist
    /\ netCall' = [op |-> "release"]
    /\ UNCHANGED <<netUp, cfgV4, cfgV6, waiting, elapsed, netPanic>>
    /\ UNCHANGED notNet

NetNext ==
    \/ CreateNetStack
    \/ DropNetStack
    \/ ConfigV4Change
    \/ ConfigV6Change
    \/ GetConf
    \/ WaitConfChange
    \/ Tick
    \/ WaitReturn
    \/ Bind
    \/ ReleaseSocket

NetSpec == Init /\ [][NetNext]_vars

\* C12: get_conf never returns an error; it returns Ok(Some(snapshot))
\* exactly when the stack has both an IPv4 and an IPv6 configuration at the
\* call, and Ok(None) when either is absent.
C12_GetConfSnapshotIffBoth ==
    netCall.op = "get_conf"
        => /\ netCall.res = "Ok"
           /\ (netCall.value # None)
                <=> (netCall.v4 # None /\ netCall.v6 # None)

\* C12 witness: get_conf answered Ok(None) with the static IPv6
\* configuration present and DHCPv4 not completed.
C12_Witness ==
    /\ netCall.op = "get_conf"
    /\ netCall.res = "Ok"
    /\ netCall.value = None
    /\ netCall.v4 = None
    /\ netCall.v6 # None

C14_BindPool ==
    /\ MAX_SOCKETS = 2
    /\ buffersUsed <= MAX_SOCKETS
    /\ Cardinality({i \in DOMAIN resources : resources[i] = "udp"}) = buffersUsed
    /\ ~netPanic
    /\ netCall.op = "bind"
         => netCall.res = (IF netCall.before >= 2 THEN "NoBuffers" ELSE "Ok")

\* C14 witness: a bind succeeded after a socket was released from a pool
\* that had refused a bind.
C14_Witness ==
    /\ netCall.op = "bind"
    /\ netCall.res = "Ok"
    /\ netCall.afterRelease
    /\ poolHist = "rebound"

\* C18: the socket set guarded by the lock has MIN_SOCKET_SET =
\* MAX_SOCKETS + 2 = 4 slots in every state, whatever activations, binds
\* and releases happened.
C18_SocketSetCapacity ==
    /\ MIN_SOCKET_SET = 4
    /\ DOMAIN resources = 1..(MAX_SOCKETS + 2)

\* C18 witness: in a second activation, with the slots of DHCP and DNS and
\* of two bound sockets taken, the set still has its 4 slots.
C18_Witness ==
    /\ netUp
    /\ poolHist # "fresh"
    /\ Cardinality({i \in DOMAIN resources : resources[i] # "free"}) = 4
    /\ Cardinality(DOMAIN resources) = 4

\* ======================================================================
\* EmbassyBle::run
\* ======================================================================

\* The caller invokes EmbassyBle::run(task); run awaits
\* self.provider.provide().
BleCallRun ==
    /\ Alive
    /\ blePc = "idle"
    /\ blePc' = "provide"
    /\ bleMain' = "none"
    /\ bleMainOut' = NoResult
    /\ bleRet' = NoResult
    /\ bleProvides' = 0
    /\ bleStarts' = 0
    /\ UNCHANGED notBle

\* Mutant of BleProvide: the BLE run takes the lock of the Wifi resource
\* pool before it starts the task.
BleProvide_TakesLock ==
    /\ Alive
    /\ blePc = "provide"
    /\ ~locked
    /\ locked' = TRUE
    /\ bleProvides' = bleProvides + 1
    /\ bleStarts' = bleStarts + 1
    /\ bleMain' = "pending"
    /\ blePc' = "running"
    /\ UNCHANGED <<bleMainOut, bleRet>>
    /\ UNCHANGED <<pc, stack, main, mainOut, runner, ret, provides, starts,
                   tie>>
    /\ UNCHANGED <<ctlVars, nalVars, netVars>>

\* provide() hands the controller over (it has no error to return),
\* TroubleBtpGattPeripheral::new wraps it, and `task.run(&peripheral)` is
\* created and awaited.
BleProvide ==
    /\ Alive
    /\ blePc = "provide"
    /\ bleProvides' = bleProvides + 1
    /\ bleStarts' = bleStarts + 1
    /\ bleMain' = "pending"
    /\ blePc' = "running"
    /\ UNCHANGED <<bleMainOut, bleRet>>
    /\ UNCHANGED notBle

\* The caller's BLE task completes with a result of its own.
BleTaskFinish ==
    /\ Alive
    /\ blePc = "running"
    /\ bleMain = "pending"
    /\ \E r \in Results :
         /\ bleMain' = "ready"
         /\ bleMainOut' = r
    /\ UNCHANGED <<blePc, bleRet, bleProvides, bleStarts>>
    /\ UNCHANGED notBle

\* `task.run(&peripheral).await` is the tail expression of run: the task's
\* result is the result of run.
BleReturn ==
    /\ Alive
    /\ blePc = "running"
    /\ bleMain = "ready"
    /\ bleRet' = bleMainOut
    /\ bleMain' = "done"
    /\ blePc' = "idle"
    /\ UNCHANGED <<bleMainOut, bleProvides, bleStarts>>
    /\ UNCHANGED notBle

BleNext ==
    \/ BleCallRun
    \/ BleProvide
    \/ BleTaskFinish
    \/ BleReturn

\* A Wifi adapter per entry of Adapters and the BLE adapter, run side by
\* side by one executor.
WirelessNext ==
    \/ Next
    \/ BleNext

WirelessSpec == Init /\ [][WirelessNext]_vars

\* The steps of one activation: Idle ("idle") -> Acquiring ("provide", then
\* "lock" while the lock is awaited) -> Configuring -> Racing -> Returned
\* ("idle" again). An activation whose provider aborts stops in Acquiring.
ActivationOrder ==
    { <<"idle", "provide">>, <<"provide", "lock">>,
      <<"lock", "configuring">>, <<"configuring", "racing">>,
      <<"racing", "idle">>, <<"provide", "panicked">> }

\* C20: every activation of EmbassyWifi::run moves through Idle,
\* Acquiring, Configuring, Racing, Returned in that order, one state at a
\* time and never backwards. provide() has completed before the lock is
\* requested, the lock is taken only by an activation that requested it
\* after provide(), the stack is constructed only by an activation that
\* holds the lock, and the caller's task and the background loop exist and
\* step only while the stack of their activation exists.
C20_ActivationOrder ==
    /\ [](\A a \in Adapters :
            /\ pc[a] \in {"lock", "configuring", "racing"}
                  => provides[a] = 1
            /\ pc[a] \in {"configuring", "racing"} => locked
            /\ stack[a] => locked /\ pc[a] = "racing"
            /\ (main[a] \in {"pending", "ready"}
                  \/ runner[a] \in {"running", "ready"})
                  => stack[a])
    /\ [][\A a \in Adapters :
            /\ pc'[a] # pc[a] => <<pc[a], pc'[a]>> \in ActivationOrder
            /\ (locked' /\ ~locked /\ pc'[a] # pc[a])
                  => pc[a] = "lock" /\ provides[a] = 1
            /\ (stack'[a] /\ ~stack[a])
                  => pc[a] = "configuring" /\ locked
            /\ (main'[a] # main[a] \/ runner'[a] # runner[a]
                  \/ mainOut'[a] # mainOut[a])
                  => stack[a] \/ stack'[a]]_vars

\* C20 witness: one activation has gone through every state and returned,
\* and another one, past provide() and holding the lock, races on its
\* stack with its task ready.
C20_Witness ==
    \E a, b \in Adapters :
        /\ a # b
        /\ pc[a] = "idle" /\ ret[a] # NoResult
        /\ provides[a] = 1 /\ starts[a] = 1
        /\ pc[b] = "racing" /\ stack[b] /\ locked
        /\ provides[b] = 1 /\ main[b] = "ready"

\* C21: whenever the stack of an activation exists, or its task or its
\* background loop is live (created and neither finished nor dropped),
\* that activation, and no other, holds the lock of the resource pool. So
\* the background loop is live only between the acquisition of the lock
\* and its release.
C21_StackAndLoopUnderLock ==
    \A a \in Adapters :
        (\/ stack[a]
         \/ main[a] \in {"pending", "ready"}
         \/ runner[a] \in {"running", "ready"})
        => locked /\ Holders = {a}

\* C21 witness: one activation races on its stack under the lock, its
\* background loop running, while an earlier activation of another
\* adapter has returned and left its background loop dropped.
C21_Witness ==
    \E a, b \in Adapters :
        /\ a # b
        /\ pc[a] = "racing" /\ stack[a] /\ locked
        /\ main[a] = "pending" /\ runner[a] = "running"
        /\ pc[b] = "idle" /\ runner[b] = "dropped" /\ ~stack[b]

\* C22: once the race of an activation has resolved, its loser takes no
\* further step. Outside Racing no task and no background loop is live;
\* the step that ends the race leaves exactly one side "done", the other
\* one "dropped" in the state it was suspended in, with no value delivered
\* to it or produced by it; and a finished or dropped side never changes
\* again (only a later activation replaces it by new futures).
C22_LoserIsDropped ==
    /\ [](\A a \in Adapters :
            pc[a] # "racing"
              => /\ main[a] \notin {"pending", "ready"}
                 /\ runner[a] \notin {"running", "ready"})
    /\ [][\A a \in Adapters :
            /\ (pc[a] = "racing" /\ pc'[a] # "racing")
                  => /\ mainOut'[a] = mainOut[a]
                     /\ \/ main'[a] = "done" /\ runner'[a] = "dropped"
                        \/ /\ main'[a] = "dropped" /\ runner'[a] = "done"
                           /\ main[a] = "pending"
                           /\ mainOut[a] = NoResult
            /\ (main[a] \in {"done", "dropped"} /\ pc[a] # "configuring")
                  => main'[a] = main[a] /\ mainOut'[a] = mainOut[a]
            /\ (runner[a] \in {"done", "dropped"} /\ pc[a] # "configuring")
                  => runner'[a] = runner[a]]_vars

\* C22 witness: a run has returned on the end of its background loop and
\* its task, still pending then, is dropped without a result; the same
\* adapter has been invoked again since.
C22_Witness ==
    \E a \in Adapters :
        /\ pc[a] = "lock"
        /\ ret[a] = "Ok"
        /\ runner[a] = "done"
        /\ main[a] = "dropped" /\ mainOut[a] = NoResult

\* C19: run never retries by itself. In one invocation of EmbassyWifi::run
\* and in one invocation of EmbassyBle::run, provide() is called at most
\* once and the caller's task is started at most once at every instant;
\* an invocation that is past provide() has called it exactly once; an
\* invocation that races or has returned, with whatever result, has called
\* provide() exactly once and started the task exactly once.
C19_NoAutomaticRetry ==
    /\ \A a \in Adapters :
          /\ provides[a] <= 1
          /\ starts[a] <= 1
          /\ pc[a] \in {"lock", "configuring", "panicked"}
                => provides[a] = 1 /\ starts[a] = 0
          /\ pc[a] = "racing" => provides[a] = 1 /\ starts[a] = 1
          /\ (pc[a] = "idle" /\ ret[a] # NoResult)
                => provides[a] = 1 /\ starts[a] = 1
    /\ bleProvides <= 1
    /\ bleStarts <= 1
    /\ blePc = "running" => bleProvides = 1 /\ bleStarts = 1
    /\ (blePc = "idle" /\ bleRet # NoResult)
          => bleProvides = 1 /\ bleStarts = 1

\* C19 witness: a Wifi run has returned the error its task failed with,
\* another one has returned because its background loop ended, and a BLE
\* run has returned its task's error, each after one provide() and one
\* start of the task.
C19_Witness ==
    /\ \E a \in Adapters :
          /\ pc[a] = "idle" /\ ret[a] \in ErrorCodes /\ main[a] = "done"
          /\ provides[a] = 1 /\ starts[a] = 1
    /\ \E a \in Adapters :
          /\ pc[a] = "idle" /\ ret[a] = "Ok" /\ runner[a] = "done"
          /\ provides[a] = 1 /\ starts[a] = 1
    /\ blePc = "idle" /\ bleRet \in ErrorCodes
    /\ bleProvides = 1 /\ bleStarts = 1

\* C23: the controller handed out by provide() at the start of an
\* activation has no recorded associated-network identity, whatever the
\* task of an earlier activation did with the controller, for the owning
\* provider and for the borrowing one.
C23_ControllerStartsWithoutIdentity ==
    [][(~provided /\ provided') => identity' = None]_vars

\* C24: acquiring the lock never starves an invocation. In every run of
\* the program in which no provider aborts and every activation that
\* holds the lock returns at some time, every invocation suspended at the
\* lock gets it and reaches Racing.
C24_LockNeverStarves ==
    ( /\ []Alive
      /\ \A a \in Adapters :
            [](pc[a] \in {"configuring", "racing"} => <>(pc[a] = "idle")) )
    => \A a \in Adapters : [](pc[a] = "lock" => <>(pc[a] = "racing"))

\* ======================================================================
\* create_net_config
\* ======================================================================

\* The activations on one driver that are followed.
MaxActivations == 2

\* Mutant of create_net_config: the usual /64 of a link-local address.
create_net_config_Prefix64(m) ==
    [ipv4 |-> [kind |-> "Dhcp"],
     ipv6 |-> [kind |-> "Static",
               address |-> create_link_local_ipv6(m),
               prefix_len |-> 64,
               gateway |-> None,
               dns_servers |-> <<>>]]

\* create_net_config(&driver), for a driver whose hardware_address() is
\* HardwareAddress::Ethernet(m).
create_net_config(m) ==
    [ipv4 |-> [kind |-> "Dhcp"],
     ipv6 |-> [kind |-> "Static",
               address |-> create_link_local_ipv6(m),
               prefix_len |-> 10,
               gateway |-> None,
               dns_servers |-> <<>>]]

\* create_net_stack: `let config = create_net_config(&driver);`, once per
\* activation, on the same driver.
CreateNetConfig ==
    /\ Len(configs) < MaxActivations
    /\ configs' = Append(configs, create_net_config(mac))
    /\ UNCHANGED <<mac, ip, ipFrom, mcast>>
    /\ UNCHANGED notNal

NetConfigSpec == NalSpecInit /\ [][CreateNetConfig]_vars

\* C25: every configuration built for a driver with Ethernet address mac
\* has IPv4 on DHCP and IPv6 static with the address
\* create_link_local_ipv6(mac), which starts with fe80::, prefix length
\* 10, no gateway and no DNS server; configurations built in different
\* activations on the same address are equal.
C25_NetConfig ==
    /\ \A i \in 1..Len(configs) :
          /\ configs[i].ipv4.kind = "Dhcp"
          /\ configs[i].ipv6.kind = "Static"
          /\ configs[i].ipv6.address = create_link_local_ipv6(mac)
          /\ configs[i].ipv6.address[1] = 254
          /\ configs[i].ipv6.address[2] = 128
          /\ configs[i].ipv6.prefix_len = 10
          /\ configs[i].ipv6.gateway = None
          /\ Len(configs[i].ipv6.dns_servers) = 0
    /\ \A i, j \in 1..Len(configs) : configs[i] = configs[j]

\* C25 witness: two activations on 52:74:f2:b1:a8:7f have each built the
\* static configuration fe80::5074:f2ff:feb1:a87f/10.
C25_Witness ==
    /\ mac = TestMac
    /\ Len(configs) = 2
    /\ configs[2].ipv6.address =
          <<254, 128, 0, 0, 0, 0, 0, 0, 80, 116, 242, 255, 254, 177, 168, 127>>
    /\ configs[2].ipv6.prefix_len = 10

\* C26: a snapshot returned by get_conf gives the state of the stack at
\* the call: its IPv4 and IPv6 addresses are those the stack had then, and
\* its link-layer address is the hardware address of the driver the stack
\* was built on.
C26_SnapshotReflectsStack ==
    (netCall.op = "get_conf" /\ netCall.value # None)
        => /\ netCall.value[1].ipv4 = netCall.v4[1]
           /\ netCall.value[1].ipv6 = netCall.v6[1]
           /\ netCall.value[1].mac = mac

\* C27: dropping the future of run at a suspension point never leaves the
\* lock held. Whatever drops happened, the lock is held only while an
\* activation that is past its acquisition exists, and an adapter whose
\* run is not in progress has no stack and no live task or loop; so the
\* lock is free after the drop of its holder and can be taken again.
C27_DropReleasesLock ==
    /\ locked => Holders # {}
    /\ \A a \in Adapters :
          pc[a] = "idle"
            => /\ ~stack[a]
               /\ main[a] \notin {"pending", "ready"}
               /\ runner[a] \notin {"running", "ready"}

\* C27 witness: the run of an adapter was dropped while racing (its task
\* and its background loop are both dropped, which no return of run
\* leaves behind), the lock was free after that, and a later run of the
\* same adapter has acquired it.
C27_Witness ==
    \E a \in Adapters :
        /\ pc[a] = "configuring"
        /\ locked
        /\ Holders = {a}
        /\ main[a] = "dropped"
        /\ runner[a] = "dropped"

\* C28: when the caller's task and the background loop were both ready
\* at the poll that resolved the race, run has returned the result of
\* the task, an error included: the task is the side that completed and
\* the loop is the side dropped.
C28_TaskWinsTie ==
    \A a \in Adapters :
        (pc[a] = "idle" /\ tie[a])
            => /\ ret[a] = mainOut[a]
               /\ main[a] = "done"
               /\ runner[a] = "dropped"

\* C28 witness: a run has returned the error of its task although its
\* background loop had ended by the same poll.
C28_Witness ==
    \E a \in Adapters :
        /\ pc[a] = "idle"
        /\ tie[a]
        /\ mainOut[a] \in ErrorCodes
        /\ ret[a] \in ErrorCodes

\* C29: in EspWifiController::scan, when the callback answers an error at
\* its i-th invocation, scan returns that error and the invocations made
\* are exactly the first i: no later result is delivered, and the None
\* sentinel is not delivered unless it was the i-th invocation itself.
\* No scan changes the recorded associated-network identity.
C29_CallbackErrorStopsScan ==
    /\ []((/\ call.op = "scan"
            /\ wifi.controller = "EspWifiController"
            /\ ~call.failed
            /\ call.cbErrAt # 0)
           => /\ call.res = call.cbErr
              /\ Len(call.calls) = call.cbErrAt
              /\ \A i \in 1..Len(call.calls) :
                    call.calls[i] = IF i <= Len(call.aps)
                                    THEN Some(call.aps[i]) ELSE None
              /\ call.cbErrAt <= Len(call.aps)
                    => \A i \in 1..Len(call.calls) : call.calls[i] # None)
    /\ [][(call' # call /\ call'.op = "scan") => identity' = identity]_vars

\* C29 witness: with an identity recorded, a scan that found two networks
\* returned the error its callback gave on the first of them, after that
\* one invocation.
C29_Witness ==
    /\ call.op = "scan"
    /\ wifi.controller = "EspWifiController"
    /\ identity # None
    /\ Len(call.aps) = 2
    /\ call.cbErrAt = 1
    /\ call.res = "NoNetworkInterface"
    /\ Len(call.calls) = 1

\* C30: EmbassyBle::run provides once, runs the task once and returns
\* exactly the result of the task, Ok or the same error. No step of the
\* BLE run touches the lock of the Wifi resource pool, a stack or a
\* background loop, and the BLE run is never kept waiting by the lock:
\* once invoked it can go on whether or not a Wifi activation holds it.
C30_BleRunIsIndependent ==
    /\ []((blePc = "idle" /\ bleRet # NoResult)
            => /\ bleRet = bleMainOut
               /\ bleMain = "done"
               /\ bleProvides = 1
               /\ bleStarts = 1)
    /\ []((Alive /\ blePc = "provide") => ENABLED BleProvide)
    /\ [][bleVars' # bleVars => UNCHANGED <<locked, stack, runner>>]_vars

\* C30 witness: while a Wifi activation holds the lock and races, the
\* task of a BLE run has come to an error that run is about to return.
C30_Witness ==
    /\ locked
    /\ \E a \in Adapters : pc[a] = "racing" /\ runner[a] = "running"
    /\ blePc = "running"
    /\ bleMain = "ready"
    /\ bleMainOut \in ErrorCodes
    /\ bleProvides = 1

====
